---- MODULE Spec2Model ----
(***************************************************************************)
(* postscriptum: PubSub (src/src/postscriptum/pubsub.py), the registration *)
(* adapter (src/src/postscriptum/register.py) and the scoped-exit guard    *)
(* (src/src/postscriptum/system_exit.py), as a state machine of one Python *)
(* process.                                                                *)
(*                                                                         *)
(* A dispatch (_handle_crash, _handle_terminate, _handle_quit,             *)
(* _handle_finish) is synchronous Python code: it is computed here by      *)
(* operators that thread a dispatch state (called set, invocation log,     *)
(* exception in flight) through the statements of the method, and one      *)
(* action applies the whole method.  What a user handler does when it is   *)
(* invoked is an input of the action.                                      *)
(***************************************************************************)
EXTENDS Integers, Sequences, FiniteSets, TLC

(***************************************************************************)
(* Bounds of the model.                                                    *)
(***************************************************************************)
NumHandlers == 2      \* distinct handler callables
MaxRegs == 2          \* registrations (handler, category) per PubSub
MaxScope == 1         \* nesting depth of guarded scopes
CountCap == 3         \* invocation counters saturate here
MaxDepth == 3         \* depth of the error-hook history under direct calls of the adapter
MaxSignalDepth == 2   \* depth of a signal's history under direct calls of the adapter

\* signals delivered to a watcher in one run
MaxDeliveries == 2

PubSubs == {"A", "B"}
Handlers == 1..NumHandlers
Categories == {"terminate", "quit", "crash", "finish", "hold", "always"}

(***************************************************************************)
(* Signals.  PROCESS_TERMINATING_SIGNAL is a tuple of names; which names   *)
(* the signal module has depends on the platform.                          *)
(***************************************************************************)
PROCESS_TERMINATING_SIGNAL == <<"SIGINT", "SIGQUIT", "SIGTERM", "SIGBREAK">>

Platforms == {"unix", "windows"}

\* getattr(signal, name, None): the attribute, or None when the platform lacks it
SignalModule(plat) ==
    IF plat = "unix"
    THEN [SIGINT |-> 2, SIGQUIT |-> 3, SIGTERM |-> 15]
    ELSE [SIGINT |-> 2, SIGTERM |-> 15, SIGBREAK |-> 21]

\* a lookup that filters nothing: every name is yielded
signals_from_unfiltered(plat, names, i) == SubSeq(names, i, Len(names))

RECURSIVE signals_from(_, _, _)
signals_from(plat, names, i) ==
    IF i > Len(names) THEN <<>>
    ELSE IF names[i] \in DOMAIN SignalModule(plat)
         THEN <<names[i]>> \o signals_from(plat, names, i + 1)
         ELSE signals_from(plat, names, i + 1)

\* signals_from_names: the names the platform has, in input order
signals_from_names(plat, names) == signals_from(plat, names, 1)

SeqToSet(s) == {s[i] : i \in 1..Len(s)}

AllSignals == SeqToSet(PROCESS_TERMINATING_SIGNAL)

\* the signals the environment sends in this model
DeliveredSignals == {"SIGINT", "SIGTERM"}

(***************************************************************************)
(* Exceptions.  PubSubExit is the forced-exit sentinel, a SystemExit.      *)
(* "by" names the handler whose call raised a generic error (0: the        *)
(* application).                                                           *)
(***************************************************************************)
NoExc == [type |-> "none", code |-> 0, by |-> 0]
PubSubExit(c) == [type |-> "PubSubExit", code |-> c, by |-> 0]
SystemExit(c) == [type |-> "SystemExit", code |-> c, by |-> 0]
Error(h) == [type |-> "Error", code |-> 0, by |-> h]

Raised(e) == e.type # "none"

\* isinstance(e, ExitFromSignal): the class the guard tests for is the class of
\* the forced-exit sentinel
ExitFromSignal(e) == e.type = "PubSubExit"

\* PubSub.force_exit: raise PubSubExit(exit_code)
force_exit(exit_code) == PubSubExit(exit_code)

(***************************************************************************)
(* Event contexts.  has_exit: the context holds the "exit" entry, a        *)
(* partial(self.force_exit, exit_code=exit_default).                       *)
(***************************************************************************)
EmptyContext ==
    [kind |-> "empty", signal |-> "-", exit_code |-> 0,
     has_exit |-> FALSE, exit_default |-> 0, previous |-> <<>>]

TerminateContext(sig, num, previous_handler) ==
    [kind |-> "terminate", signal |-> sig, exit_code |-> 0,
     has_exit |-> TRUE, exit_default |-> 128 + num,
     previous |-> <<previous_handler>>]

QuitContext(code) ==
    [kind |-> "quit", signal |-> "-", exit_code |-> code,
     has_exit |-> TRUE, exit_default |-> code, previous |-> <<>>]

CrashContext(previous_handler) ==
    [kind |-> "crash", signal |-> "-", exit_code |-> 0,
     has_exit |-> FALSE, exit_default |-> 0,
     previous |-> <<previous_handler>>]

(***************************************************************************)
(* What a handler does when invoked with a context.                        *)
(*   return    returns normally                                            *)
(*   raise     raises an error of its own                                  *)
(*   exit      context["exit"]()                                           *)
(*   exit_pos  context["exit"](c)           (a positional code)            *)
(*   exit_kw   context["exit"](exit_code=c) (a keyword code)               *)
(*   signal    returns, a terminating signal arriving while it runs (the   *)
(*             wrapper of the signal runs inside the handler's call)       *)
(* context["exit"] is partial(force_exit, exit_code=default): a positional *)
(* argument binds force_exit's only parameter a second time and the call   *)
(* raises TypeError; a context without "exit" raises KeyError.             *)
(***************************************************************************)
ExplicitCodes == {7}
QuitCodes == {2}

Behaviours ==
    {[op |-> "return", code |-> 0], [op |-> "raise", code |-> 0],
     [op |-> "exit", code |-> 0]}
    \cup {[op |-> o, code |-> c] : o \in {"exit_pos", "exit_kw"}, c \in ExplicitCodes}

Return == [op |-> "return", code |-> 0]

Interrupted == [op |-> "signal", code |-> 0]

\* the signal that arrives while a handler runs
NestedSignal == "SIGINT"

Invoke(h, context, b) ==
    CASE b.op = "return" -> NoExc
      [] b.op = "raise" -> Error(h)
      [] b.op = "exit" ->
            IF context.has_exit THEN force_exit(context.exit_default) ELSE Error(h)
      [] b.op = "exit_kw" ->
            IF context.has_exit THEN force_exit(b.code) ELSE Error(h)
      [] b.op = "exit_pos" -> Error(h)
      [] b.op = "signal" -> NoExc

(***************************************************************************)
(* Values of sys.excepthook and of signal.getsignal(sig): the interpreter's*)
(* own handler, or a handler_wrapper closure made by a registration.  A    *)
(* wrapper is identified by the PubSub whose method it wraps and the value *)
(* it replaced; the exception wrapper also closes over call_previous.      *)
(***************************************************************************)
Builtin == [type |-> "builtin", owner |-> "-", previous |-> <<>>, call_previous |-> FALSE]

Wrapper(p, previous_handler, call_previous_handler) ==
    [type |-> "wrapper", owner |-> p, previous |-> <<previous_handler>>,
     call_previous |-> call_previous_handler]

VARIABLES
    handlers,                    \* p -> category -> the OrderedSet, as a sequence
    config,                      \* p -> the three constructor flags
    started,                     \* p -> self._started
    called_handlers,             \* p -> self._called_handlers
    excepthook,                  \* sys.excepthook
    EXCEPTION_HANDLERS_HISTORY,  \* register.py, the stack of replaced hooks
    signal_handler,              \* sig -> signal.getsignal(sig)
    SIGNAL_HANDLERS_HISTORY,     \* register.py, a dict sig -> stack
    atexit_callbacks,            \* the callbacks atexit holds, oldest first
    platform,                    \* which signal names exist
    live,                        \* the PubSub objects the program constructed
    phase,                       \* "running", "exiting" (atexit due), "dead"
    pending,                     \* the exception unwinding the main thread
    scope,                       \* the guarded scopes entered, innermost last
    ep,                          \* observation: the dispatch the last step made
    ncalls,                      \* observation: p -> h -> invocations since reset()
    lc,                          \* observation: a start() and the stop() right after it
    seen                         \* observation: the deliveries of a scripted run

program == <<handlers, config, started, called_handlers>>
adapter == <<excepthook, EXCEPTION_HANDLERS_HISTORY, signal_handler,
             SIGNAL_HANDLERS_HISTORY, atexit_callbacks>>
process == <<platform, live, phase, pending, scope>>
vars == <<program, adapter, process, ep, ncalls, lc, seen>>

Inc(n) == IF n < CountCap THEN n + 1 ELSE n

(***************************************************************************)
(* The dispatch state threaded through a handler method:                   *)
(*   called  p -> _called_handlers       log    the invocations, in order  *)
(*   loops   the _call_handlers loops entered, in order                    *)
(*   exc     the exception propagating   resets  reset() calls made        *)
(***************************************************************************)
EnterDispatch ==
    [called |-> called_handlers, ncalls |-> ncalls, log |-> <<>>,
     loops |-> <<>>, exc |-> NoExc, resets |-> 0]

RECURSIVE handle_terminate(_, _, _, _, _)

\* the handlers of a delivery nested in a handler's call are not interrupted
\* in their turn
Calm(beh) == [h \in DOMAIN beh |-> IF beh[h].op = "signal" THEN Return ELSE beh[h]]

\* a signal arrives during handler(context): the wrapper installed for it
\* calls _handle_terminate on the stack of the handler, and what it raises
\* leaves the handler
Interrupt(b, beh, st) ==
    IF b.op = "signal" /\ signal_handler[NestedSignal].type = "wrapper"
    THEN LET stack == SIGNAL_HANDLERS_HISTORY[NestedSignal]
         IN  handle_terminate(signal_handler[NestedSignal].owner, NestedSignal,
                              stack[Len(stack)], Calm(beh), st)
    ELSE st

RECURSIVE call_handlers_from(_, _, _, _, _, _, _)
call_handlers_from(p, hs, i, cat, context, beh, st) ==
    IF i > Len(hs) \/ Raised(st.exc) THEN st
    ELSE IF hs[i] \in st.called[p]
         THEN call_handlers_from(p, hs, i + 1, cat, context, beh, st)
         ELSE call_handlers_from(p, hs, i + 1, cat, context, beh,
                Interrupt(beh[hs[i]], beh,
                    [st EXCEPT !.called[p] = @ \cup {hs[i]},
                               !.ncalls[p][hs[i]] = Inc(@),
                               !.log = Append(@, [owner |-> p, h |-> hs[i], cat |-> cat,
                                                  ctx |-> context, did |-> beh[hs[i]]]),
                               !.exc = Invoke(hs[i], context, beh[hs[i]])]))

\* a _call_handlers iterating over its collection last registered first
call_handlers_reversed(p, cat, context, beh, st) ==
    IF Raised(st.exc) THEN st
    ELSE call_handlers_from(p, [i \in 1..Len(handlers[p][cat]) |->
                                   handlers[p][cat][Len(handlers[p][cat]) + 1 - i]],
                            1, cat, context, beh,
                            [st EXCEPT !.loops = Append(@, [owner |-> p, cat |-> cat])])

\* PubSub._call_handlers; a statement after a raise is not executed
call_handlers(p, cat, context, beh, st) ==
    IF Raised(st.exc) THEN st
    ELSE call_handlers_from(p, handlers[p][cat], 1, cat, context, beh,
                            [st EXCEPT !.loops = Append(@, [owner |-> p, cat |-> cat])])

\* a reset() that leaves the called set as it is
reset_keeps(p, st) ==
    IF Raised(st.exc) THEN st
    ELSE [st EXCEPT !.resets = @ + 1]

\* PubSub.reset
reset(p, st) ==
    IF Raised(st.exc) THEN st
    ELSE [st EXCEPT !.called[p] = {},
                    !.ncalls[p] = [h \in Handlers |-> 0],
                    !.resets = @ + 1]

\* a _handle_finish without its first statement
handle_finish_always_only(p, context, beh, st) ==
    call_handlers(p, "always", context, beh, st)

\* a _handle_finish that dispatches the quit category first
handle_finish_after_quit(p, context, beh, st) ==
    call_handlers(p, "always", context, beh,
                  call_handlers(p, "finish", context, beh,
                                call_handlers(p, "quit", context, beh, st)))

\* PubSub._handle_finish
handle_finish(p, context, beh, st) ==
    call_handlers(p, "always", context, beh,
                  call_handlers(p, "finish", context, beh, st))

\* a _handle_hold that goes through _handle_finish first
handle_hold_after_finish(p, context, beh, st) ==
    reset(p, call_handlers(p, "always", context, beh,
                           call_handlers(p, "hold", context, beh,
                                         handle_finish(p, context, beh, st))))

\* a _handle_hold without its last statement
handle_hold_no_reset(p, context, beh, st) ==
    call_handlers(p, "always", context, beh,
                  call_handlers(p, "hold", context, beh, st))

\* PubSub._handle_hold
handle_hold(p, context, beh, st) ==
    reset(p, call_handlers(p, "always", context, beh,
                           call_handlers(p, "hold", context, beh, st)))

\* an except clause that only raises again
ExceptExitRaise(p, context, beh, st) == st

\* except PubSubExit: self._handle_finish(context); raise
ExceptExitFinishRaise(p, context, beh, st) ==
    LET s2 == handle_finish(p, context, beh, [st EXCEPT !.exc = NoExc])
    IN  IF Raised(s2.exc) THEN s2 ELSE [s2 EXCEPT !.exc = st.exc]

\* a raise statement reached only when nothing is propagating
Raise(e, st) == IF Raised(st.exc) THEN st ELSE [st EXCEPT !.exc = e]

\* a _handle_terminate whose except clause catches every exception
handle_terminate_catch_all(p, sig, previous_handler, beh, st) ==
    LET num == SignalModule(platform)[sig]
        recommended_exit_code == 128 + num
        context == TerminateContext(sig, num, previous_handler)
        s1 == call_handlers(p, "terminate", context, beh, st)
    IN  IF Raised(s1.exc) THEN ExceptExitFinishRaise(p, context, beh, s1)
        ELSE IF config[p].exit_after_terminate_handlers
             THEN Raise(force_exit(recommended_exit_code),
                        handle_finish(p, context, beh, s1))
             ELSE handle_hold(p, context, beh, s1)

\* a _handle_terminate that exits without _handle_finish when no handler did
handle_terminate_exit_only(p, sig, previous_handler, beh, st) ==
    LET num == SignalModule(platform)[sig]
        recommended_exit_code == 128 + num
        context == TerminateContext(sig, num, previous_handler)
        s1 == call_handlers(p, "terminate", context, beh, st)
    IN  IF s1.exc.type = "PubSubExit" THEN ExceptExitFinishRaise(p, context, beh, s1)
        ELSE IF Raised(s1.exc) THEN s1
        ELSE IF config[p].exit_after_terminate_handlers
             THEN Raise(force_exit(recommended_exit_code), s1)
             ELSE handle_hold(p, context, beh, s1)

\* PubSub._handle_terminate
handle_terminate(p, sig, previous_handler, beh, st) ==
    LET num == SignalModule(platform)[sig]
        recommended_exit_code == 128 + num
        context == TerminateContext(sig, num, previous_handler)
        s1 == call_handlers(p, "terminate", context, beh, st)
    IN  IF s1.exc.type = "PubSubExit" THEN ExceptExitFinishRaise(p, context, beh, s1)
        ELSE IF Raised(s1.exc) THEN s1
        ELSE IF config[p].exit_after_terminate_handlers
             THEN Raise(force_exit(recommended_exit_code),
                        handle_finish(p, context, beh, s1))
             ELSE handle_hold(p, context, beh, s1)

\* a _handle_quit without its try/except
handle_quit_no_except(p, code, beh, st) ==
    LET context == QuitContext(code)
        s1 == call_handlers(p, "quit", context, beh, st)
    IN  IF Raised(s1.exc) THEN s1
        ELSE IF config[p].exit_after_quit_handlers
             THEN handle_finish(p, context, beh, s1)
             ELSE handle_hold(p, context, beh, s1)

\* PubSub._handle_quit
handle_quit(p, code, beh, st) ==
    LET context == QuitContext(code)
        s1 == call_handlers(p, "quit", context, beh, st)
    IN  IF s1.exc.type = "PubSubExit" THEN ExceptExitFinishRaise(p, context, beh, s1)
        ELSE IF Raised(s1.exc) THEN s1
        ELSE IF config[p].exit_after_quit_handlers
             THEN handle_finish(p, context, beh, s1)
             ELSE handle_hold(p, context, beh, s1)

\* PubSub._handle_crash
handle_crash(p, previous_handler, beh, st) ==
    LET context == CrashContext(previous_handler)
    IN  handle_finish(p, context, beh, call_handlers(p, "crash", context, beh, st))

(***************************************************************************)
(* The registration adapter (register.py).  Its operations are threaded    *)
(* through a record of the process-wide hooks; exc is an IndexError raised *)
(* by a restore.                                                           *)
(***************************************************************************)
AdapterState ==
    [excepthook |-> excepthook, exc_history |-> EXCEPTION_HANDLERS_HISTORY,
     signal_handler |-> signal_handler, sig_history |-> SIGNAL_HANDLERS_HISTORY,
     atexit |-> atexit_callbacks, exc |-> NoExc]

\* SIGNAL_HANDLERS_HISTORY.get(sig, [])
HistoryOf(hist, sig) == IF sig \in DOMAIN hist THEN hist[sig] ELSE <<>>

Put(d, k, v) == [x \in DOMAIN d \cup {k} |-> IF x = k THEN v ELSE d[x]]

Front(s) == SubSeq(s, 1, Len(s) - 1)
Last(s) == s[Len(s)]

\* a register that installs the wrapper and records nothing
register_without_history(p, call_previous_handler, ad) ==
    [ad EXCEPT !.excepthook = Wrapper(p, ad.excepthook, call_previous_handler)]

\* register_exception_handler(handler, call_previous_handler)
register_exception_handler(p, call_previous_handler, ad) ==
    [ad EXCEPT !.exc_history = Append(@, ad.excepthook),
               !.excepthook = Wrapper(p, ad.excepthook, call_previous_handler)]

\* a restore that pops the history and leaves sys.excepthook as it is
restore_pops_only(ad) ==
    IF Raised(ad.exc) THEN ad
    ELSE IF ad.exc_history = <<>> THEN [ad EXCEPT !.exc = Error(0)]
    ELSE [ad EXCEPT !.exc_history = Front(@)]

\* a restore that falls back on the interpreter's hook when the history is empty
restore_or_builtin(ad) ==
    IF Raised(ad.exc) THEN ad
    ELSE IF ad.exc_history = <<>> THEN [ad EXCEPT !.excepthook = Builtin]
    ELSE [ad EXCEPT !.excepthook = Last(ad.exc_history),
                    !.exc_history = Front(@)]

\* restore_previous_exception_handler()
restore_previous_exception_handler(ad) ==
    IF Raised(ad.exc) THEN ad
    ELSE IF ad.exc_history = <<>> THEN [ad EXCEPT !.exc = Error(0)]
    ELSE [ad EXCEPT !.excepthook = Last(ad.exc_history),
                    !.exc_history = Front(@)]

\* the handler_wrapper of register_signals_handler: one closure over handler
SignalWrapper(p) == [type |-> "wrapper", owner |-> p, previous |-> <<>>, call_previous |-> FALSE]

RECURSIVE register_signals_from(_, _, _, _)
register_signals_from(p, sigs, i, ad) ==
    IF i > Len(sigs) THEN ad
    ELSE register_signals_from(p, sigs, i + 1,
            [ad EXCEPT !.sig_history =
                          Put(@, sigs[i], Append(HistoryOf(@, sigs[i]),
                                                 ad.signal_handler[sigs[i]])),
                       !.signal_handler[sigs[i]] = SignalWrapper(p)])

\* register_signals_handler(handler, signals)
register_signals_handler(p, signals, ad) ==
    register_signals_from(p, signals_from_names(platform, signals), 1, ad)

RECURSIVE restore_signals_from(_, _, _)
restore_signals_from(sigs, i, ad) ==
    IF i > Len(sigs) \/ Raised(ad.exc) THEN ad
    ELSE IF HistoryOf(ad.sig_history, sigs[i]) = <<>>
         THEN [ad EXCEPT !.exc = Error(0)]
         ELSE restore_signals_from(sigs, i + 1,
                [ad EXCEPT !.signal_handler[sigs[i]] = Last(ad.sig_history[sigs[i]]),
                           !.sig_history[sigs[i]] = Front(@)])

\* a restore of the signal handlers that does nothing
restore_signals_skipped(signals, ad) == ad

\* a restore that goes through every terminate signal, whatever it is given
restore_every_signal(signals, ad) ==
    IF Raised(ad.exc) THEN ad
    ELSE restore_signals_from(signals_from_names(platform, PROCESS_TERMINATING_SIGNAL), 1, ad)

\* restore_signals_handlers(signals) (pubsub.py imports it as
\* restore_previous_signals_handlers)
restore_signals_handlers(signals, ad) ==
    IF Raised(ad.exc) THEN ad
    ELSE restore_signals_from(signals_from_names(platform, signals), 1, ad)

\* atexit.register(self._handle_finish)
atexit_register(p, ad) == [ad EXCEPT !.atexit = Append(@, p)]

\* atexit.unregister(self._handle_finish): every entry equal to it goes
atexit_unregister(p, ad) ==
    IF Raised(ad.exc) THEN ad
    ELSE [ad EXCEPT !.atexit = SelectSeq(@, LAMBDA c : c # p)]

\* PubSub.start after the started test: the three registrations
start_registrations(p, ad) ==
    atexit_register(p,
        register_signals_handler(p, PROCESS_TERMINATING_SIGNAL,
            register_exception_handler(p, config[p].call_previous_exception_handlers, ad)))

\* a stop that leaves the signal handlers and their stacks as they are
stop_keeping_signals(p, ad) ==
    atexit_unregister(p, restore_previous_exception_handler(ad))

\* a stop that unregisters the atexit callback and restores nothing
stop_unregistering_only(p, ad) == atexit_unregister(p, ad)

\* PubSub.stop after the started test: the three restorations
stop_restorations(p, ad) ==
    atexit_unregister(p,
        restore_signals_handlers(PROCESS_TERMINATING_SIGNAL,
            restore_previous_exception_handler(ad)))

SetAdapter(ad) ==
    /\ excepthook' = ad.excepthook
    /\ EXCEPTION_HANDLERS_HISTORY' = ad.exc_history
    /\ signal_handler' = ad.signal_handler
    /\ SIGNAL_HANDLERS_HISTORY' = ad.sig_history
    /\ atexit_callbacks' = ad.atexit

(***************************************************************************)
(* Observation of the last dispatch.                                       *)
(***************************************************************************)
NoEpisode ==
    [kind |-> "none", owner |-> "-", ctx |-> EmptyContext, entry |-> {},
     log |-> <<>>, loops |-> <<>>, exc |-> NoExc, resets |-> 0, after |-> {}]

Episode(kind, p, context, st) ==
    [kind |-> kind, owner |-> p, ctx |-> context, entry |-> called_handlers[p],
     log |-> st.log, loops |-> st.loops, exc |-> st.exc, resets |-> st.resets,
     after |-> st.called[p]]

SetDispatch(st) ==
    /\ called_handlers' = st.called
    /\ ncalls' = st.ncalls

\* the process-wide hooks of a fresh interpreter; "other" is an atexit callback
\* of the application
InitialAdapter ==
    [excepthook |-> Builtin, exc_history |-> <<>>,
     signal_handler |-> [sig \in AllSignals |-> Builtin], sig_history |-> <<>>,
     atexit |-> <<"other">>, exc |-> NoExc]

\* lc.op is "start" right after a start() that registered, with the hooks as
\* they were before it, and "start_stop" when the next step is stop() of the
\* same PubSub
NoLifecycle == [op |-> "none", who |-> "-", before |-> InitialAdapter]

\* seen counts the signal deliveries of a scripted run and the invocations of
\* each handler over all of them
NoDeliveries == [deliveries |-> 0, total |-> [h \in Handlers |-> 0]]

Unobserved == lc' = NoLifecycle /\ UNCHANGED seen

(***************************************************************************)
(* sys.excepthook(type, value, traceback) and the atexit run.              *)
(***************************************************************************)
PreviousHookCall ==
    [owner |-> "-", h |-> 0, cat |-> "previous_hook", ctx |-> EmptyContext, did |-> Return]

\* the handler_wrapper of register_exception_handler, or the interpreter's hook
RECURSIVE call_excepthook(_, _, _)
call_excepthook(hook, beh, st) ==
    IF Raised(st.exc) THEN st
    ELSE IF hook.type = "builtin" THEN [st EXCEPT !.log = Append(@, PreviousHookCall)]
    ELSE handle_crash(hook.owner, hook.previous[1], beh,
                      IF hook.call_previous
                      THEN call_excepthook(hook.previous[1], beh, st)
                      ELSE st)

\* an atexit run whose PubSub callback is _handle_hold
RECURSIVE run_atexit_hold(_, _, _, _)
run_atexit_hold(cbs, i, beh, st) ==
    IF i < 1 THEN st
    ELSE IF cbs[i] \in PubSubs
         THEN run_atexit_hold(cbs, i - 1, beh,
                              handle_hold(cbs[i], EmptyContext, beh, [st EXCEPT !.exc = NoExc]))
         ELSE run_atexit_hold(cbs, i - 1, beh, st)

\* atexit runs its callbacks last registered first; what a callback raises is
\* printed and dropped
RECURSIVE run_atexit(_, _, _, _)
run_atexit(cbs, i, beh, st) ==
    IF i < 1 THEN st
    ELSE IF cbs[i] \in PubSubs
         THEN run_atexit(cbs, i - 1, beh,
                         handle_finish(cbs[i], EmptyContext, beh, [st EXCEPT !.exc = NoExc]))
         ELSE run_atexit(cbs, i - 1, beh, st)

(***************************************************************************)
(* Initial state: the program has constructed its PubSub objects, with any *)
(* constructor flags, and registered nothing.                              *)
(***************************************************************************)
Configs ==
    [call_previous_exception_handlers : BOOLEAN,
     exit_after_terminate_handlers : BOOLEAN,
     exit_after_quit_handlers : BOOLEAN]

DefaultConfig ==
    [call_previous_exception_handlers |-> TRUE,
     exit_after_terminate_handlers |-> TRUE,
     exit_after_quit_handlers |-> TRUE]

InitWith(objects, platforms, configs) ==
    /\ live = objects
    /\ platform \in platforms
    /\ handlers = [p \in PubSubs |-> [c \in Categories |-> <<>>]]
    /\ config \in {f \in [PubSubs -> configs \cup {DefaultConfig}] :
                        \A p \in PubSubs : IF p \in objects THEN f[p] \in configs
                                           ELSE f[p] = DefaultConfig}
    /\ started = [p \in PubSubs |-> FALSE]
    /\ called_handlers = [p \in PubSubs |-> {}]
    /\ excepthook = InitialAdapter.excepthook
    /\ EXCEPTION_HANDLERS_HISTORY = InitialAdapter.exc_history
    /\ signal_handler = InitialAdapter.signal_handler
    /\ SIGNAL_HANDLERS_HISTORY = InitialAdapter.sig_history
    /\ atexit_callbacks = InitialAdapter.atexit
    /\ phase = "running"
    /\ pending = NoExc
    /\ scope = <<>>
    /\ ep = NoEpisode
    /\ ncalls = [p \in PubSubs |-> [h \in Handlers |-> 0]]
    /\ lc = NoLifecycle
    /\ seen = NoDeliveries

\* the dispatch model: one PubSub, the previous error hook chained (the default)
ChainingConfigs == {c \in Configs : c.call_previous_exception_handlers}

Init == InitWith({"A"}, {"unix"}, ChainingConfigs)

(***************************************************************************)
(* Actions.  The application runs (Idle) when the process is running and   *)
(* no exception is unwinding the main thread.                              *)
(***************************************************************************)
Idle == phase = "running" /\ ~Raised(pending)

Registered(p) == {<<c, i>> \in Categories \X (1..NumHandlers) : i <= Len(handlers[p][c])}

Known(p) == UNION {SeqToSet(handlers[p][c]) : c \in Categories}

\* handlers are opaque callables: a callable registered for the first time is
\* given the least unused name
Fresh(p) == {h \in Handlers : \A g \in Handlers : g < h => g \in Known(p)}

\* The inputs of a dispatch: what each handler does if it is invoked.  Only the
\* handlers the dispatch can reach (listed in one of its categories and not yet
\* called) are given a choice: what the others would do is immaterial.
Reachable(p, cats) == UNION {SeqToSet(handlers[p][c]) : c \in cats} \ called_handlers[p]

InputsFor(hs) ==
    {[h \in Handlers |-> IF h \in hs THEN f[h] ELSE Return] : f \in [hs -> Behaviours]}

TerminateInputs(p) == InputsFor(Reachable(p, {"terminate", "finish", "hold", "always"}))
QuitInputs(p) == InputsFor(Reachable(p, {"quit", "finish", "hold", "always"}))
CrashInputs == InputsFor(UNION {Reachable(p, {"crash", "finish", "always"}) : p \in live})
FinishInputs == InputsFor(UNION {Reachable(p, {"finish", "always"}) : p \in live})

\* the PubSub whose wrapper is installed for a signal, the PubSub of the
\* innermost guarded scope
SignalOwner(sig) ==
    IF signal_handler[sig].type = "wrapper" THEN {signal_handler[sig].owner} ELSE {}
ScopeOwner == IF scope = <<>> THEN {} ELSE {Last(scope)}

\* OrderedSet.add
OrderedSetAdd(s, h) == IF h \in SeqToSet(s) THEN s ELSE Append(s, h)

\* ps.on_<category>()(h), ps.<category>_handlers.add(h)
Add(p, cat, h) ==
    /\ Idle
    /\ Cardinality(Registered(p)) < MaxRegs
    /\ h \in Known(p) \cup Fresh(p)
    /\ handlers' = [handlers EXCEPT ![p][cat] = OrderedSetAdd(@, h)]
    /\ ep' = NoEpisode
    /\ Unobserved
    /\ UNCHANGED <<config, started, called_handlers, adapter, process, ncalls>>

\* a start() without the test of self.started
start_again(p) ==
    LET st == reset(p, EnterDispatch)
    IN  /\ SetDispatch(st)
        /\ SetAdapter(start_registrations(p, AdapterState))
        /\ started' = [started EXCEPT ![p] = TRUE]

\* PubSub.start
start(p) ==
    IF started[p]
    THEN UNCHANGED <<started, called_handlers, adapter, ncalls>>
    ELSE LET st == reset(p, EnterDispatch)
         IN  /\ SetDispatch(st)
             /\ SetAdapter(start_registrations(p, AdapterState))
             /\ started' = [started EXCEPT ![p] = TRUE]

Start(p) ==
    /\ Idle
    /\ start(p)
    /\ ep' = NoEpisode
    /\ lc' = IF started[p] THEN NoLifecycle
             ELSE [op |-> "start", who |-> p, before |-> AdapterState]
    /\ UNCHANGED seen
    /\ UNCHANGED <<handlers, config, process>>

\* a stop() without the test of self.started
StopUnguarded(p) ==
    /\ Idle
    /\ LET ad == stop_restorations(p, AdapterState)
       IN  /\ SetAdapter(ad)
           /\ pending' = ad.exc
           /\ started' = [started EXCEPT ![p] = IF Raised(ad.exc) THEN @ ELSE FALSE]
    /\ ep' = NoEpisode
    /\ lc' = IF lc.op = "start" /\ lc.who = p THEN [lc EXCEPT !.op = "start_stop"]
             ELSE NoLifecycle
    /\ UNCHANGED seen
    /\ UNCHANGED <<handlers, config, called_handlers, platform, live, phase, scope, ncalls>>

\* PubSub.stop; an IndexError of a restore leaves what was done so far
Stop(p) ==
    /\ Idle
    /\ IF ~started[p]
       THEN UNCHANGED <<started, adapter, pending>>
       ELSE LET ad == stop_restorations(p, AdapterState)
            IN  /\ SetAdapter(ad)
                /\ pending' = ad.exc
                /\ started' = [started EXCEPT ![p] = IF Raised(ad.exc) THEN @ ELSE FALSE]
    /\ ep' = NoEpisode
    /\ lc' = IF lc.op = "start" /\ lc.who = p THEN [lc EXCEPT !.op = "start_stop"]
             ELSE NoLifecycle
    /\ UNCHANGED seen
    /\ UNCHANGED <<handlers, config, called_handlers, platform, live, phase, scope, ncalls>>

\* with ps(): / @ps(): catch_system_exit.__enter__ calls on_enter = ps.start
EnterScope(p) ==
    /\ Idle
    /\ Len(scope) < MaxScope
    /\ start(p)
    /\ scope' = Append(scope, p)
    /\ ep' = NoEpisode
    /\ Unobserved
    /\ UNCHANGED <<handlers, config, platform, live, phase, pending>>

\* the guarded block ends normally: __exit__(None, None, None)
LeaveScope ==
    /\ Idle
    /\ scope # <<>>
    /\ scope' = Front(scope)
    /\ ep' = NoEpisode
    /\ Unobserved
    /\ UNCHANGED <<program, adapter, platform, live, phase, pending, ncalls>>

\* a signal of the terminate group arrives and its installed wrapper runs:
\* handler(sig, frame, SIGNAL_HANDLERS_HISTORY[sig][-1])
Deliver(sig, beh) ==
    /\ Idle
    /\ sig \in DOMAIN SignalModule(platform)
    /\ signal_handler[sig].type = "wrapper"
    /\ LET p == signal_handler[sig].owner
           stack == HistoryOf(SIGNAL_HANDLERS_HISTORY, sig)
       IN  IF stack = <<>>
           THEN /\ pending' = Error(0)
                /\ ep' = NoEpisode
                /\ UNCHANGED <<called_handlers, ncalls>>
           ELSE LET st == handle_terminate(p, sig, Last(stack), beh, EnterDispatch)
                    num == SignalModule(platform)[sig]
                IN  /\ SetDispatch(st)
                    /\ pending' = st.exc
                    /\ ep' = Episode("terminate", p, TerminateContext(sig, num, Last(stack)), st)
    /\ lc' = NoLifecycle
    /\ UNCHANGED <<handlers, config, started, adapter, platform, live, phase, scope>>

DeliverSignal(sig, beh) == Deliver(sig, beh) /\ UNCHANGED seen

\* the application calls sys.exit(code) / raises SystemExit(code)
SysExit(code) ==
    /\ Idle
    /\ pending' = SystemExit(code)
    /\ ep' = NoEpisode
    /\ Unobserved
    /\ UNCHANGED <<program, adapter, platform, live, phase, scope, ncalls>>

\* the application raises an error
AppError ==
    /\ Idle
    /\ pending' = Error(0)
    /\ ep' = NoEpisode
    /\ Unobserved
    /\ UNCHANGED <<program, adapter, platform, live, phase, scope, ncalls>>

\* the application catches the exception in flight (try/except) and goes on
Catch ==
    /\ phase = "running"
    /\ Raised(pending)
    /\ pending' = NoExc
    /\ ep' = NoEpisode
    /\ Unobserved
    /\ UNCHANGED <<program, adapter, platform, live, phase, scope, ncalls>>

\* an __exit__ without the test for the sentinel: every SystemExit is a quit
GuardExitNoSentinelTest(beh) ==
    /\ phase = "running"
    /\ Raised(pending)
    /\ scope # <<>>
    /\ LET p == Last(scope)
           received_quit == pending.type \in {"SystemExit", "PubSubExit"}
           raise_again == config[p].exit_after_quit_handlers
       IN  IF received_quit
           THEN LET st == handle_quit(p, pending.code, beh, EnterDispatch)
                IN  /\ SetDispatch(st)
                    /\ pending' = IF Raised(st.exc) THEN st.exc
                                  ELSE IF raise_again THEN pending ELSE NoExc
                    /\ ep' = Episode("quit", p, QuitContext(pending.code), st)
           ELSE /\ pending' = IF raise_again THEN pending ELSE NoExc
                /\ ep' = NoEpisode
                /\ UNCHANGED <<called_handlers, ncalls>>
    /\ scope' = Front(scope)
    /\ Unobserved
    /\ UNCHANGED <<handlers, config, started, adapter, platform, live, phase>>

\* an __exit__ that returns True whatever raise_again is
GuardExitSuppressing(beh) ==
    /\ phase = "running"
    /\ Raised(pending)
    /\ scope # <<>>
    /\ LET p == Last(scope)
           received_signal == ExitFromSignal(pending)
           received_quit == pending.type \in {"SystemExit", "PubSubExit"}
       IN  IF received_quit /\ ~received_signal
           THEN LET st == handle_quit(p, pending.code, beh, EnterDispatch)
                IN  /\ SetDispatch(st)
                    /\ pending' = IF Raised(st.exc) THEN st.exc ELSE NoExc
                    /\ ep' = Episode("quit", p, QuitContext(pending.code), st)
           ELSE /\ pending' = NoExc
                /\ ep' = NoEpisode
                /\ UNCHANGED <<called_handlers, ncalls>>
    /\ scope' = Front(scope)
    /\ Unobserved
    /\ UNCHANGED <<handlers, config, started, adapter, platform, live, phase>>

\* catch_system_exit.__exit__: the exception in flight unwinds the innermost
\* guarded scope
GuardExit(beh) ==
    /\ phase = "running"
    /\ Raised(pending)
    /\ scope # <<>>
    /\ LET p == Last(scope)
           received_signal == ExitFromSignal(pending)
           received_quit == pending.type \in {"SystemExit", "PubSubExit"}
           raise_again == config[p].exit_after_quit_handlers
       IN  IF received_quit /\ ~received_signal
           THEN LET st == handle_quit(p, pending.code, beh, EnterDispatch)
                IN  /\ SetDispatch(st)
                    /\ pending' = IF Raised(st.exc) THEN st.exc
                                  ELSE IF raise_again THEN pending ELSE NoExc
                    /\ ep' = Episode("quit", p, QuitContext(pending.code), st)
           ELSE /\ pending' = IF raise_again THEN pending ELSE NoExc
                /\ ep' = NoEpisode
                /\ UNCHANGED <<called_handlers, ncalls>>
    /\ scope' = Front(scope)
    /\ Unobserved
    /\ UNCHANGED <<handlers, config, started, adapter, platform, live, phase>>

\* an error reaches the top of the main thread: the interpreter calls
\* sys.excepthook, drops what the hook raises, and shuts down
UnhandledError(beh) ==
    /\ phase = "running"
    /\ pending.type = "Error"
    /\ scope = <<>>
    /\ LET st == call_excepthook(excepthook, beh, EnterDispatch)
       IN  /\ SetDispatch(st)
           /\ ep' = IF excepthook.type = "wrapper"
                    THEN Episode("crash", excepthook.owner,
                                 CrashContext(excepthook.previous[1]), st)
                    ELSE NoEpisode
    /\ phase' = "exiting"
    /\ pending' = NoExc
    /\ Unobserved
    /\ UNCHANGED <<handlers, config, started, adapter, platform, live, scope>>

\* a SystemExit (PubSubExit is one) reaches the top: no excepthook call
UnhandledExit ==
    /\ phase = "running"
    /\ pending.type \in {"SystemExit", "PubSubExit"}
    /\ scope = <<>>
    /\ phase' = "exiting"
    /\ pending' = NoExc
    /\ ep' = NoEpisode
    /\ Unobserved
    /\ UNCHANGED <<program, adapter, platform, live, scope, ncalls>>

\* the main module runs off its end
CleanExit ==
    /\ Idle
    /\ scope = <<>>
    /\ phase' = "exiting"
    /\ ep' = NoEpisode
    /\ Unobserved
    /\ UNCHANGED <<program, adapter, platform, live, pending, scope, ncalls>>

\* interpreter shutdown runs the atexit callbacks
AtExit(beh) ==
    /\ phase = "exiting"
    /\ LET st == run_atexit(atexit_callbacks, Len(atexit_callbacks), beh, EnterDispatch)
           owners == SeqToSet(atexit_callbacks) \cap PubSubs
       IN  /\ SetDispatch(st)
           /\ ep' = IF owners = {} THEN NoEpisode
                    ELSE Episode("atexit", CHOOSE p \in owners : TRUE, EmptyContext, st)
    /\ phase' = "dead"
    /\ Unobserved
    /\ UNCHANGED <<handlers, config, started, adapter, platform, live, pending, scope>>

Next ==
    \/ \E p \in live, cat \in Categories, h \in Handlers : Add(p, cat, h)
    \/ \E p \in live : Start(p)
    \/ \E p \in live : Stop(p)
    \/ \E p \in live : EnterScope(p)
    \/ LeaveScope
    \/ \E sig \in DeliveredSignals : \E p \in SignalOwner(sig) :
          \E beh \in TerminateInputs(p) : DeliverSignal(sig, beh)
    \/ \E code \in QuitCodes : SysExit(code)
    \/ AppError
    \/ Catch
    \/ \E p \in ScopeOwner : \E beh \in QuitInputs(p) : GuardExit(beh)
    \/ \E beh \in CrashInputs : UnhandledError(beh)
    \/ UnhandledExit
    \/ CleanExit
    \/ \E beh \in FinishInputs : AtExit(beh)

Spec == Init /\ [][Next]_vars

(***************************************************************************)
(* The run of examples/confirm_exit.py: a PubSub that holds after its      *)
(* terminate handlers, entered by "with ps():", whose first terminate      *)
(* handler returns on the first delivery and calls event["exit"]() on the  *)
(* next one.  Every other handler returns.                                 *)
(***************************************************************************)
HoldConfigs == {c \in ChainingConfigs : ~c.exit_after_terminate_handlers}

InitConfirm == InitWith({"A"}, {"unix"}, HoldConfigs)

\* what the handlers of the run do on the next delivery
bye(p) ==
    [h \in Handlers |->
        IF handlers[p]["terminate"][1] = h /\ seen.deliveries >= 1
        THEN [op |-> "exit", code |-> 0]
        ELSE Return]

InvocationsIn(log, h) == Cardinality({i \in 1..Len(log) : log[i].h = h})

Plus(n, k) == IF n + k < CountCap THEN n + k ELSE CountCap

ConfirmDeliver(sig) ==
    /\ handlers["A"]["terminate"] # <<>>
    /\ Deliver(sig, bye("A"))
    /\ seen' = [deliveries |-> Inc(seen.deliveries),
                total |-> [h \in Handlers |->
                              Plus(seen.total[h], InvocationsIn(ep'.log, h))]]

NextConfirm ==
    \/ \E cat \in Categories, h \in Handlers : Add("A", cat, h)
    \/ EnterScope("A")
    \/ \E sig \in DeliveredSignals : ConfirmDeliver(sig)

SpecConfirm == InitConfirm /\ [][NextConfirm]_vars

(***************************************************************************)
(* Deliveries during which a second terminating signal may arrive while a  *)
(* handler of the first is running.  Python runs the wrapper of the second *)
(* signal in the main thread, inside the handler's call.                   *)
(***************************************************************************)
InitNested ==
    InitWith({"A"}, {"unix"}, {c \in ChainingConfigs : c.exit_after_quit_handlers})

NestedInputs(p) ==
    LET hs == Reachable(p, {"terminate", "finish", "hold", "always"})
    IN  {[h \in Handlers |-> IF h \in hs THEN f[h] ELSE Return] :
            f \in [hs -> {Return, Interrupted}]}

NestedDeliver(sig, beh) == Deliver(sig, beh) /\ UNCHANGED seen

NextNested ==
    \/ \E cat \in Categories, h \in Handlers : Add("A", cat, h)
    \/ Start("A")
    \/ \E sig \in DeliveredSignals : \E p \in SignalOwner(sig) :
          \E beh \in NestedInputs(p) : NestedDeliver(sig, beh)
    \/ Catch

SpecNested == InitNested /\ [][NextNested]_vars

(***************************************************************************)
(* The lifecycle of two PubSub objects of one process: registrations,      *)
(* start() and stop() in any order, on either platform.                    *)
(***************************************************************************)
ExitingConfigs ==
    {c \in Configs : c.exit_after_terminate_handlers /\ c.exit_after_quit_handlers}

InitLifecycle == InitWith({"A", "B"}, Platforms, ExitingConfigs)

NextLifecycle ==
    \/ \E cat \in Categories, h \in Handlers : Add("A", cat, h)
    \/ \E p \in live : Start(p)
    \/ \E p \in live : Stop(p)

SpecLifecycle == InitLifecycle /\ [][NextLifecycle]_vars

(***************************************************************************)
(* Unhandled errors of a program whose PubSub chains the previous error    *)
(* hook or not: PubSub(call_previous_exception_handler=...), the exit      *)
(* flags left at their defaults.  An error raised by a terminate handler   *)
(* is one of the errors that reach the hook.                               *)
(***************************************************************************)
InitCrash == InitWith({"A"}, {"unix"}, ExitingConfigs)

NextCrash ==
    \/ \E cat \in Categories, h \in Handlers : Add("A", cat, h)
    \/ Start("A")
    \/ \E sig \in DeliveredSignals : \E p \in SignalOwner(sig) :
          \E beh \in TerminateInputs(p) : DeliverSignal(sig, beh)
    \/ AppError
    \/ Catch
    \/ \E beh \in CrashInputs : UnhandledError(beh)

SpecCrash == InitCrash /\ [][NextCrash]_vars

(***************************************************************************)
(* Clean runs: the program registers handlers, starts and stops its        *)
(* PubSub, enters and leaves guarded scopes, and runs off its end.  No      *)
(* signal arrives, nothing is raised.                                      *)
(***************************************************************************)
NextClean ==
    \/ \E cat \in Categories, h \in Handlers : Add("A", cat, h)
    \/ Start("A")
    \/ Stop("A")
    \/ EnterScope("A")
    \/ LeaveScope
    \/ CleanExit
    \/ \E beh \in FinishInputs : AtExit(beh)

SpecClean == Init /\ [][NextClean]_vars

(***************************************************************************)
(* The error-hook adapter called directly, as tests/test_register.py does: *)
(* register_exception_handler with one of two handlers and either value of *)
(* call_previous_handler, restore_previous_exception_handler, in any       *)
(* order.  lc records the call just made and the hooks before it.          *)
(***************************************************************************)
InitExcepthook == InitWith({"A", "B"}, {"unix"}, {DefaultConfig})

RegisterException(p, call_previous_handler) ==
    /\ Idle
    /\ Len(EXCEPTION_HANDLERS_HISTORY) < MaxDepth
    /\ SetAdapter(register_exception_handler(p, call_previous_handler, AdapterState))
    /\ lc' = [op |-> "register_exception", who |-> p, before |-> AdapterState]
    /\ UNCHANGED <<program, process, ep, ncalls, seen>>

RestoreException ==
    /\ Idle
    /\ LET ad == restore_previous_exception_handler(AdapterState)
       IN  /\ SetAdapter(ad)
           /\ pending' = ad.exc
    /\ lc' = [op |-> "restore_exception", who |-> "-", before |-> AdapterState]
    /\ UNCHANGED <<program, platform, live, phase, scope, ep, ncalls, seen>>

NextExcepthook ==
    \/ \E p \in live, call_previous_handler \in BOOLEAN :
          RegisterException(p, call_previous_handler)
    \/ RestoreException
    \/ Catch

SpecExcepthook == InitExcepthook /\ [][NextExcepthook]_vars

(***************************************************************************)
(* The signal adapter called directly, as tests/unit/test_signals.py does: *)
(* register_signals_handler with one of two handlers and                   *)
(* restore_signals_handlers, each on one of a few tuples of signal names,  *)
(* in any order.  A name the platform lacks is skipped.  lc records the    *)
(* call just made, its names and the handlers before it.                   *)
(***************************************************************************)
SignalNames == {<<"SIGINT">>, <<"SIGTERM">>, <<"SIGTERM", "SIGINT", "SIGBREAK">>}

InitSignals == InitWith({"A", "B"}, {"unix"}, {DefaultConfig})

RegisterSignals(p, names) ==
    /\ Idle
    /\ \A sig \in SeqToSet(signals_from_names(platform, names)) :
          Len(HistoryOf(SIGNAL_HANDLERS_HISTORY, sig)) < MaxSignalDepth
    /\ SetAdapter(register_signals_handler(p, names, AdapterState))
    /\ lc' = [op |-> "register_signals", who |-> p, before |-> AdapterState,
              signals |-> names]
    /\ UNCHANGED <<program, process, ep, ncalls, seen>>

RestoreSignals(names) ==
    /\ Idle
    /\ LET ad == restore_signals_handlers(names, AdapterState)
       IN  /\ SetAdapter(ad)
           /\ pending' = ad.exc
    /\ lc' = [op |-> "restore_signals", who |-> "-", before |-> AdapterState,
              signals |-> names]
    /\ UNCHANGED <<program, platform, live, phase, scope, ep, ncalls, seen>>

NextSignals ==
    \/ \E p \in live, names \in SignalNames : RegisterSignals(p, names)
    \/ \E names \in SignalNames : RestoreSignals(names)
    \/ Catch

SpecSignals == InitSignals /\ [][NextSignals]_vars

(***************************************************************************)
(* The signal adapter called directly, with signals arriving between the   *)
(* calls.  The installed handler_wrapper calls its handler with the top of *)
(* the signal's history stack, read when the wrapper runs; the handler may *)
(* call the previous handler it was given, which, when that is an earlier  *)
(* wrapper, reads the top of the same stack again.  lc records the values  *)
(* the handlers received, outermost call first.                            *)
(***************************************************************************)
\* handler_wrapper: the third argument of handler(sig, frame, ...)
handler_wrapper(sig, ad) == Last(HistoryOf(ad.sig_history, sig))

SignalCall(sig, calls_previous) ==
    /\ Idle
    /\ signal_handler[sig].type = "wrapper"
    /\ LET given == handler_wrapper(sig, AdapterState)
       IN  lc' = [op |-> "signal_call", who |-> signal_handler[sig].owner,
                  before |-> AdapterState, signals |-> <<sig>>,
                  received |-> IF calls_previous /\ given.type = "wrapper"
                               THEN <<given, handler_wrapper(sig, AdapterState)>>
                               ELSE <<given>>]
    /\ UNCHANGED <<program, adapter, process, ep, ncalls, seen>>

NextSignalCalls ==
    \/ \E p \in live, names \in SignalNames : RegisterSignals(p, names)
    \/ \E names \in SignalNames : RestoreSignals(names)
    \/ \E sig \in DOMAIN signal_handler, calls_previous \in BOOLEAN :
            SignalCall(sig, calls_previous)
    \/ Catch

SpecSignalCalls == InitSignals /\ [][NextSignalCalls]_vars

(***************************************************************************)
(* signals_from_names on its own and under the direct adapter calls, on    *)
(* both platforms.  An element of signal_names is a str or a member of the *)
(* signal.Signals enum of the platform; a member is yielded as it is, a    *)
(* str is looked up in the signal module and yielded if the attribute      *)
(* exists and is truthy.  lc records the input and the list yielded.       *)
(***************************************************************************)
MaxNames == 2

Str(n) == [is_signals |-> FALSE, name |-> n]

\* the member of signal.Signals a name stands for on a platform
Signals(plat, n) == [is_signals |-> TRUE, name |-> n, value |-> SignalModule(plat)[n]]

RECURSIVE signals_from_mixed(_, _, _)
signals_from_mixed(plat, signal_names, i) ==
    IF i > Len(signal_names) THEN <<>>
    ELSE LET sig == signal_names[i]
             rest == signals_from_mixed(plat, signal_names, i + 1)
         IN  IF sig.is_signals THEN <<sig>> \o rest
             ELSE IF sig.name \in DOMAIN SignalModule(plat)
                        /\ SignalModule(plat)[sig.name] # 0
                  THEN <<Signals(plat, sig.name)>> \o rest
                  ELSE rest

SignalItems(plat) ==
    {Str(n) : n \in AllSignals} \cup {Signals(plat, n) : n \in DOMAIN SignalModule(plat)}

SignalItemLists(plat) == UNION {[1..n -> SignalItems(plat)] : n \in 0..MaxNames}

\* names with one the platform lacks, on each platform
MixedNames == {<<"SIGTERM", "SIGINT", "SIGBREAK">>, <<"SIGQUIT", "SIGINT">>}

InitNames == InitWith({"A"}, Platforms, {DefaultConfig})

Resolve(signal_names) ==
    /\ Idle
    /\ lc' = [op |-> "signals_from_names", who |-> "-", before |-> AdapterState,
              signals |-> signal_names,
              yielded |-> signals_from_mixed(platform, signal_names, 1)]
    /\ UNCHANGED <<program, adapter, process, ep, ncalls, seen>>

NextNames ==
    \/ \E signal_names \in SignalItemLists(platform) : Resolve(signal_names)
    \/ \E p \in live, names \in MixedNames : RegisterSignals(p, names)
    \/ \E names \in MixedNames : RestoreSignals(names)
    \/ Catch

SpecNames == InitNames /\ [][NextNames]_vars

(***************************************************************************)
(* EventWatcher (watcher.py): one started watcher "A" with finish and      *)
(* terminate handlers, terminating signals delivered to it, and the        *)
(* process exit that runs the atexit callbacks.  The watcher keeps one     *)
(* called set, which _call_finish_handlers empties when its loop is over.  *)
(* Here ncalls counts the invocations of a handler over the whole run and  *)
(* seen.deliveries the signals delivered.  A handler returns or raises.    *)
(***************************************************************************)
WatcherCategories == {"finish", "terminate"}

WatcherInputs(p) ==
    LET hs == Reachable(p, WatcherCategories)
    IN  {[h \in Handlers |-> IF h \in hs THEN f[h] ELSE Return] :
            f \in [hs -> {Return, [op |-> "raise", code |-> 0]}]}

\* self._called_handlers = set()
forget_called_handlers(p, st) ==
    IF Raised(st.exc) THEN st
    ELSE [st EXCEPT !.called[p] = {}, !.resets = @ + 1]

\* EventWatcher._call_finish_handlers: the loop over _call_handler, then the
\* called set is emptied
call_finish_handlers(p, context, beh, st) ==
    forget_called_handlers(p, call_handlers(p, "finish", context, beh, st))

\* EventWatcher._call_terminate_handlers; its context has no "exit" entry
call_terminate_handlers(p, sig, previous_handler, beh, st) ==
    LET num == SignalModule(platform)[sig]
        context == [TerminateContext(sig, num, previous_handler) EXCEPT !.has_exit = FALSE]
        s1 == call_handlers(p, "terminate", context, beh, st)
    IN  IF Raised(s1.exc) THEN s1
        ELSE IF config[p].exit_after_terminate_handlers
             THEN LET s2 == call_finish_handlers(p, context, beh, s1)
                  IN  IF Raised(s2.exc) THEN s2
                      ELSE [s2 EXCEPT !.exc = PubSubExit(128 + num)]
             ELSE forget_called_handlers(p, s1)

\* the atexit run when the callback of a watcher is _call_finish_handlers
RECURSIVE run_watcher_atexit(_, _, _, _)
run_watcher_atexit(cbs, i, beh, st) ==
    IF i < 1 THEN st
    ELSE IF cbs[i] \in PubSubs
         THEN run_watcher_atexit(cbs, i - 1, beh,
                    call_finish_handlers(cbs[i], EmptyContext, beh, [st EXCEPT !.exc = NoExc]))
         ELSE run_watcher_atexit(cbs, i - 1, beh, st)

InitWatcher ==
    InitWith({"A"}, {"unix"}, {c \in ChainingConfigs : c.exit_after_quit_handlers})

\* EventWatcher.start: a started watcher stops and raises RuntimeError
WatcherStart(p) ==
    /\ Idle
    /\ IF started[p]
       THEN LET ad == stop_restorations(p, AdapterState)
            IN  /\ SetAdapter(ad)
                /\ started' = [started EXCEPT ![p] = FALSE]
                /\ pending' = Error(0)
                /\ UNCHANGED called_handlers
       ELSE /\ called_handlers' = [called_handlers EXCEPT ![p] = {}]
            /\ SetAdapter(start_registrations(p, AdapterState))
            /\ started' = [started EXCEPT ![p] = TRUE]
            /\ UNCHANGED pending
    /\ ep' = NoEpisode
    /\ Unobserved
    /\ UNCHANGED <<handlers, config, platform, live, phase, scope, ncalls>>

\* a terminating signal: the installed wrapper calls _call_terminate_handlers
WatcherDeliver(sig, beh) ==
    /\ Idle
    /\ seen.deliveries < MaxDeliveries
    /\ signal_handler[sig].type = "wrapper"
    /\ LET p == signal_handler[sig].owner
           given == handler_wrapper(sig, AdapterState)
           st == call_terminate_handlers(p, sig, given, beh, EnterDispatch)
       IN  /\ SetDispatch(st)
           /\ pending' = st.exc
           /\ ep' = Episode("terminate", p,
                            [TerminateContext(sig, SignalModule(platform)[sig], given)
                                EXCEPT !.has_exit = FALSE], st)
    /\ lc' = NoLifecycle
    /\ seen' = [seen EXCEPT !.deliveries = @ + 1]
    /\ UNCHANGED <<handlers, config, started, adapter, platform, live, phase, scope>>

WatcherAtExit(beh) ==
    /\ phase = "exiting"
    /\ LET st == run_watcher_atexit(atexit_callbacks, Len(atexit_callbacks), beh, EnterDispatch)
           owners == SeqToSet(atexit_callbacks) \cap PubSubs
       IN  /\ SetDispatch(st)
           /\ ep' = IF owners = {} THEN NoEpisode
                    ELSE Episode("atexit", CHOOSE p \in owners : TRUE, EmptyContext, st)
    /\ phase' = "dead"
    /\ lc' = NoLifecycle
    /\ UNCHANGED seen
    /\ UNCHANGED <<handlers, config, started, adapter, platform, live, pending, scope>>

NextWatcher ==
    \/ \E cat \in WatcherCategories, h \in Handlers : Add("A", cat, h)
    \/ WatcherStart("A")
    \/ \E sig \in DeliveredSignals : \E p \in SignalOwner(sig) :
          \E beh \in WatcherInputs(p) : WatcherDeliver(sig, beh)
    \/ Catch
    \/ UnhandledExit
    \/ CleanExit
    \/ \E beh \in WatcherInputs("A") : WatcherAtExit(beh)

SpecWatcher == InitWatcher /\ [][NextWatcher]_vars

(***************************************************************************)
(* Reading the observation of the last dispatch.                           *)
(***************************************************************************)
IsEpisode == ep.kind \in {"crash", "terminate", "quit"}

Listed(p, cat) == SeqToSet(handlers[p][cat])

\* what the invocation recorded in a log entry did: returned, or raised
Outcome(e) == Invoke(e.h, e.ctx, e.did)

OwnLog == {i \in 1..Len(ep.log) : ep.log[i].owner = ep.owner}

\* invocations of h in the episode
EpCount(h) == Cardinality({i \in OwnLog : ep.log[i].h = h})

\* _call_handlers loops of a category entered in the episode
EpLoops(cat) ==
    Cardinality({i \in 1..Len(ep.loops) : ep.loops[i] = [owner |-> ep.owner, cat |-> cat]})

\* the loop of a category was entered and left by its last iteration, not by
\* an exception
EpCompleted(cat) ==
    /\ EpLoops(cat) > 0
    /\ \A i \in OwnLog : ep.log[i].cat = cat => ~Raised(Outcome(ep.log[i]))

AllReturned == \A i \in OwnLog : ep.log[i].did.op = "return"

CatRank(cat) ==
    CASE cat = "terminate" -> 1 [] cat = "quit" -> 1 [] cat = "crash" -> 1
      [] cat = "finish" -> 2 [] cat = "hold" -> 2
      [] cat = "always" -> 3
      [] OTHER -> 0

(***************************************************************************)
(* C1.  In one episode (a crash, terminate or quit dispatch with the       *)
(* finish/hold/always dispatch it triggers) a handler is invoked at most   *)
(* once, and exactly once if a category listing it is dispatched, read as: *)
(* the loop over a category listing it ran to its end.                     *)
(* Violated: a handler left in the called set by an earlier episode is     *)
(* skipped (see C9).                                                       *)
(***************************************************************************)
C1_InvokedOncePerEpisode ==
    IsEpisode =>
        \A h \in Handlers :
            /\ EpCount(h) <= 1
            /\ (\E cat \in Categories : EpCompleted(cat) /\ h \in Listed(ep.owner, cat))
                   => EpCount(h) = 1

C3_HoldDelivery ==
    (/\ ep.kind = "terminate"
     /\ ~config[ep.owner].exit_after_terminate_handlers
     /\ AllReturned)
    => /\ ~Raised(ep.exc)
       /\ \A h \in Listed(ep.owner, "hold") \cup Listed(ep.owner, "always") : EpCount(h) = 1
       /\ EpLoops("finish") = 0
       /\ ep.after = {}

(***************************************************************************)
(* C4.  Default configuration (exit_after_terminate_handlers=True): in a   *)
(* delivery of sig in which every handler invoked returns, the terminate   *)
(* handlers are invoked, then the finish handlers, then the always         *)
(* handlers, all with the same terminate context, the hold category is not *)
(* dispatched, and the delivery raises PubSubExit(128 + sig).              *)
(* Violated: a handler left in the called set by an earlier episode is     *)
(* skipped (see C9).                                                       *)
(***************************************************************************)
C4_ExitDelivery ==
    (/\ ep.kind = "terminate"
     /\ config[ep.owner].exit_after_terminate_handlers
     /\ AllReturned)
    => /\ \A h \in Listed(ep.owner, "terminate") \cup Listed(ep.owner, "finish")
                   \cup Listed(ep.owner, "always") : EpCount(h) = 1
       /\ \A i \in OwnLog : ep.log[i].ctx = ep.ctx
       /\ \A i, j \in OwnLog : i < j => CatRank(ep.log[i].cat) <= CatRank(ep.log[j].cat)
       /\ ep.loops = <<[owner |-> ep.owner, cat |-> "terminate"],
                       [owner |-> ep.owner, cat |-> "finish"],
                       [owner |-> ep.owner, cat |-> "always"]>>
       /\ ep.exc = PubSubExit(128 + SignalModule(platform)[ep.ctx.signal])
       /\ pending = ep.exc

(***************************************************************************)
(* C5.  When a terminate handler calls the bound exit function during a    *)
(* delivery: every terminate handler registered before it has run, none    *)
(* registered after it runs, the finish and the always categories are each *)
(* dispatched once with the terminate context, and the sentinel it raised  *)
(* propagates out of the delivery.                                         *)
(* As stated (C5_ForcedExit) it fails when a finish or always handler      *)
(* raises: the always category may not be dispatched and that handler's    *)
(* exception propagates in place of the sentinel.  Amended                 *)
(* (C5_ForcedExitUnlessFinishRaises): the finish category is dispatched    *)
(* once in every case; the always category is dispatched once and the      *)
(* sentinel propagates when no finish or always handler raises.            *)
(***************************************************************************)
Exiting(i) ==
    /\ i \in OwnLog
    /\ ep.log[i].cat = "terminate"
    /\ Outcome(ep.log[i]).type = "PubSubExit"

\* the terminate handlers registered before / after the one of log entry i
RegisteredBefore(i) ==
    LET hs == handlers[ep.owner]["terminate"]
    IN  {hs[k] : k \in {k \in 1..Len(hs) : \E m \in 1..Len(hs) : hs[m] = ep.log[i].h /\ k < m}}

HasRunBy(h, i) == h \in ep.entry \/ \E j \in OwnLog : j < i /\ ep.log[j].h = h

ExitCommon(i) ==
    /\ \A h \in RegisteredBefore(i) : HasRunBy(h, i)
    /\ \A j \in OwnLog : j > i => ep.log[j].cat # "terminate"
    /\ EpLoops("finish") = 1
    /\ EpLoops("hold") = 0
    /\ \A j \in OwnLog : j > i => ep.log[j].ctx = ep.ctx

DefaultCode ==
    IF ep.kind = "terminate" THEN 128 + SignalModule(platform)[ep.ctx.signal]
    ELSE ep.ctx.exit_code

C7_ExitCarriesCode ==
    ep.kind \in {"terminate", "quit"} =>
        \A i \in OwnLog :
            (/\ ep.log[i].cat \in {"terminate", "quit"}
             /\ ep.log[i].did.op \in {"exit", "exit_pos", "exit_kw"}
             /\ \A j \in OwnLog : j > i => ep.log[j].did.op = "return")
            => ep.exc = PubSubExit(IF ep.log[i].did.op = "exit" THEN DefaultCode
                                   ELSE ep.log[i].did.code)

C9_CalledEmptyAtEntry == IsEpisode => ep.entry = {}

(***************************************************************************)
(* C6.  A forced exit requested by a terminate handler overrides the hold  *)
(* configuration.  In the run of SpecConfirm: the first delivery invokes   *)
(* each hold handler once and raises nothing; the second delivery invokes  *)
(* each finish handler once, does not dispatch the hold category and       *)
(* raises the forced exit; the terminate handler has then been invoked     *)
(* exactly twice in total.                                                 *)
(***************************************************************************)
C6_ConfirmExit ==
    /\ (seen.deliveries = 1 /\ ep.kind = "terminate")
        => /\ ~Raised(ep.exc)
           /\ ~Raised(pending)
           /\ \A h \in Listed("A", "hold") : EpCount(h) = 1
           /\ EpLoops("finish") = 0
    /\ (seen.deliveries = 2 /\ ep.kind = "terminate")
        => /\ ep.exc = PubSubExit(128 + SignalModule(platform)[ep.ctx.signal])
           /\ pending = ep.exc
           /\ \A h \in Listed("A", "finish") : EpCount(h) = 1
           /\ EpLoops("finish") = 1
           /\ EpLoops("hold") = 0
    /\ seen.deliveries = 2 => seen.total[handlers["A"]["terminate"][1]] = 2
    /\ seen.deliveries <= 2

\* the second delivery has forced the exit and run a finish handler
C6_Witness ==
    /\ seen.deliveries = 2
    /\ ep.kind = "terminate"
    /\ ep.exc.type = "PubSubExit"
    /\ seen.total[handlers["A"]["terminate"][1]] = 2
    /\ \E i \in OwnLog : ep.log[i].cat = "finish"

(***************************************************************************)
(* C10.  start() of a PubSub that is not started, immediately followed by  *)
(* its stop(), leaves sys.excepthook, the installed handler of every       *)
(* terminate-group signal and the atexit callbacks as they were before the *)
(* start(), and every history stack at its previous depth.                 *)
(***************************************************************************)
C10_StartStopRestores ==
    lc.op = "start_stop" =>
        /\ ~Raised(pending)
        /\ ~started[lc.who]
        /\ excepthook = lc.before.excepthook
        /\ signal_handler = lc.before.signal_handler
        /\ atexit_callbacks = lc.before.atexit
        /\ Len(EXCEPTION_HANDLERS_HISTORY) = Len(lc.before.exc_history)
        /\ \A sig \in AllSignals :
              Len(HistoryOf(SIGNAL_HANDLERS_HISTORY, sig))
                  = Len(HistoryOf(lc.before.sig_history, sig))

\* a PubSub with a handler was started and stopped while the hooks of the
\* other one were installed
C10_Witness ==
    /\ lc.op = "start_stop"
    /\ lc.who = "A"
    /\ Known("A") # {}
    /\ excepthook = Wrapper("B", Builtin, TRUE)
    /\ signal_handler["SIGINT"].type = "wrapper"
    /\ Len(EXCEPTION_HANDLERS_HISTORY) = 1

(***************************************************************************)
(* C11.  Default configuration (exit_after_quit_handlers=True): a          *)
(* voluntary exit with code c unwinding a guarded scope, every handler     *)
(* invoked returning, invokes each quit handler, then each finish and each *)
(* always handler, all with the context whose exit_code is c, dispatches   *)
(* no hold category, and SystemExit(c) propagates out of the scope.        *)
(* Violated: a handler left in the called set by an earlier episode is     *)
(* skipped (see C9).                                                       *)
(***************************************************************************)
C11_QuitThenFinish ==
    (/\ ep.kind = "quit"
     /\ config[ep.owner].exit_after_quit_handlers
     /\ AllReturned)
    => /\ \A h \in Listed(ep.owner, "quit") \cup Listed(ep.owner, "finish")
                   \cup Listed(ep.owner, "always") : EpCount(h) = 1
       /\ \A i \in OwnLog : ep.log[i].ctx = ep.ctx
       /\ \A i, j \in OwnLog : i < j => CatRank(ep.log[i].cat) <= CatRank(ep.log[j].cat)
       /\ ep.loops = <<[owner |-> ep.owner, cat |-> "quit"],
                       [owner |-> ep.owner, cat |-> "finish"],
                       [owner |-> ep.owner, cat |-> "always"]>>
       /\ ~Raised(ep.exc)
       /\ pending = SystemExit(ep.ctx.exit_code)

(***************************************************************************)
(* C12.  exit_after_quit_handlers=False: a voluntary exit unwinding a      *)
(* guarded scope, every handler invoked returning, invokes each quit       *)
(* handler, then each hold and each always handler with the quit context,  *)
(* dispatches no finish category, leaves the called set empty, and the     *)
(* SystemExit is suppressed.                                               *)
(* Violated: a handler left in the called set by an earlier episode is     *)
(* skipped (see C9).                                                       *)
(***************************************************************************)
C12_QuitThenHold ==
    (/\ ep.kind = "quit"
     /\ ~config[ep.owner].exit_after_quit_handlers
     /\ AllReturned)
    => /\ \A h \in Listed(ep.owner, "quit") \cup Listed(ep.owner, "hold")
                   \cup Listed(ep.owner, "always") : EpCount(h) = 1
       /\ \A i \in OwnLog : ep.log[i].ctx = ep.ctx
       /\ \A i, j \in OwnLog : i < j => CatRank(ep.log[i].cat) <= CatRank(ep.log[j].cat)
       /\ ep.loops = <<[owner |-> ep.owner, cat |-> "quit"],
                       [owner |-> ep.owner, cat |-> "hold"],
                       [owner |-> ep.owner, cat |-> "always"]>>
       /\ ep.after = {}
       /\ ~Raised(ep.exc)
       /\ ~Raised(pending)

(***************************************************************************)
(* C13.  When a quit handler calls the bound exit function while a         *)
(* voluntary exit unwinds a guarded scope, the finish and the always       *)
(* categories are dispatched, the hold category is not, and the sentinel   *)
(* propagates out of the scope, whatever exit_after_quit_handlers is.      *)
(* As stated (C13_QuitForcedExit) it fails when a finish or always handler *)
(* raises.  Amended (C13_QuitForcedExitUnlessFinishRaises): the finish     *)
(* category is dispatched once and the hold category never; the always     *)
(* category is dispatched once and the quit handler's sentinel propagates  *)
(* when no finish or always handler raises.                                *)
(***************************************************************************)
QuitExiting(i) ==
    /\ i \in OwnLog
    /\ ep.log[i].cat = "quit"
    /\ Outcome(ep.log[i]).type = "PubSubExit"

C15_AlwaysOncePerEpisode ==
    (/\ IsEpisode
     /\ \A i \in OwnLog :
           Raised(Outcome(ep.log[i]))
               => /\ ep.log[i].cat \in {"terminate", "quit"}
                  /\ Outcome(ep.log[i]).type = "PubSubExit")
    => \A h \in Listed(ep.owner, "always") : EpCount(h) = 1

(***************************************************************************)
(* C16.  When a second terminating signal is delivered while a handler of  *)
(* a first delivery is running, every handler is invoked at most once in   *)
(* total across the outer and the nested dispatch, in the exit and in the  *)
(* hold configuration.                                                     *)
(* Violated in the hold configuration: the nested _handle_hold ends with   *)
(* reset(), and the outer dispatch, resumed with an empty called set, runs *)
(* again the handlers the nested one called.                               *)
(***************************************************************************)
NestedEpisode ==
    /\ ep.kind = "terminate"
    /\ \E i \in OwnLog : ep.log[i].did.op = "signal"

C16_NestedAtMostOnce ==
    NestedEpisode => \A h \in Handlers : EpCount(h) <= 1

(***************************************************************************)
(* C17.  Each category's collection is an insertion-ordered set: it never  *)
(* lists a handler twice; a registration either leaves it as it is (the    *)
(* handler is already there, whatever was registered in between) or        *)
(* appends the handler, so the entries keep their number and position; and *)
(* the invocations a dispatch makes in a category follow the positions of  *)
(* the handlers in its collection.                                         *)
(***************************************************************************)
PositionIn(s, h) == CHOOSE i \in 1..Len(s) : s[i] = h

NoDuplicate(s) == \A i, j \in 1..Len(s) : s[i] = s[j] => i = j

InRegistrationOrder ==
    \A i, j \in 1..Len(ep.log) :
        (/\ i < j
         /\ ep.log[i].owner \in PubSubs
         /\ ep.log[i].owner = ep.log[j].owner
         /\ ep.log[i].cat = ep.log[j].cat)
        => LET s == handlers[ep.log[i].owner][ep.log[i].cat]
           IN  PositionIn(s, ep.log[i].h) < PositionIn(s, ep.log[j].h)

ReRegistrationIsNoOp ==
    \A p \in live, cat \in Categories, h \in Handlers :
        Add(p, cat, h) =>
            IF h \in Listed(p, cat)
            THEN handlers' = handlers
            ELSE handlers'[p][cat] = Append(handlers[p][cat], h)

PreviousHookFirst ==
    /\ config[ep.owner].call_previous_exception_handlers
            => ep.log # <<>> /\ ep.log[1] = PreviousHookCall
    /\ \A i \in 1..Len(ep.log) :
            ep.log[i] = PreviousHookCall
                => i = 1 /\ config[ep.owner].call_previous_exception_handlers

C18_CrashHook ==
    ep.kind = "crash"
    => /\ PreviousHookFirst
       /\ ep.ctx = CrashContext(Last(EXCEPTION_HANDLERS_HISTORY))
       /\ \A i \in OwnLog : ep.log[i].ctx = ep.ctx /\ ep.log[i].cat # "hold"
       /\ \A i \in 1..Len(ep.loops) : ep.loops[i].cat # "hold"
       /\ ep.exc.type # "PubSubExit"
       /\ AllReturned
            => /\ \A h \in Listed(ep.owner, "crash") \cup Listed(ep.owner, "finish")
                           \cup Listed(ep.owner, "always") : EpCount(h) = 1
               /\ \A i, j \in OwnLog :
                      i < j => CatRank(ep.log[i].cat) <= CatRank(ep.log[j].cat)
               /\ ep.loops = <<[owner |-> ep.owner, cat |-> "crash"],
                               [owner |-> ep.owner, cat |-> "finish"],
                               [owner |-> ep.owner, cat |-> "always"]>>

(***************************************************************************)
(* C19.  Clean run: when the process-exit hook of a PubSub fires, each     *)
(* finish handler and then each always handler is invoked exactly once,    *)
(* with the empty context, and no handler is invoked as a crash,           *)
(* terminate, quit or hold handler.  As stated (C19_CleanRunFinish) it     *)
(* fails when a handler raises: the error leaves _handle_finish and the    *)
(* handlers after it are not invoked.  Amended                             *)
(* (C19_CleanRunFinishUnlessRaise): at most once, in that order and with   *)
(* that context, and exactly once when no handler raises.                  *)
(***************************************************************************)
FinishDispatchOnly ==
    /\ \A i \in OwnLog :
          /\ ep.log[i].ctx = EmptyContext
          /\ ep.log[i].cat \in {"finish", "always"}
    /\ \A i, j \in OwnLog : i < j => CatRank(ep.log[i].cat) <= CatRank(ep.log[j].cat)
    /\ \A i \in 1..Len(ep.loops) : ep.loops[i].cat \in {"finish", "always"}

QuitInvoked(e) == \E i \in 1..Len(e.log) : e.log[i].cat = "quit"

QuitOnlyFromScope ==
    QuitInvoked(ep')
    => /\ scope # <<>>
       /\ pending.type = "SystemExit"
       /\ ep'.kind = "quit"
       /\ ep'.owner = Last(scope)
       /\ \A i \in 1..Len(ep'.log) : ep'.log[i].owner = Last(scope)

C20_QuitOnlyInGuardedScope == [][QuitOnlyFromScope]_vars

\* sys.exit() was called outside any guarded scope while the PubSub is started
\* and lists a quit handler that has not been invoked
C20_Witness ==
    /\ phase = "running"
    /\ pending.type = "SystemExit"
    /\ scope = <<>>
    /\ ep = NoEpisode
    /\ started["A"]
    /\ Listed("A", "quit") # {}
    /\ \A h \in Listed("A", "quit") : ncalls["A"][h] = 0

(***************************************************************************)
(* C21.  When the exception unwinding a guarded scope is the forced-exit   *)
(* sentinel, the guard does not call its on_system_exit callback: no       *)
(* handler is invoked by the step, and with raise_again true the sentinel  *)
(* goes on propagating out of the scope.                                   *)
(***************************************************************************)
\* __exit__ runs with an exception: the scope is left while one is in flight
Unwinds == Raised(pending) /\ scope # <<>> /\ scope' = Front(scope)

SentinelNotIntercepted ==
    (Unwinds /\ ExitFromSignal(pending))
    => /\ ep' = NoEpisode
       /\ UNCHANGED <<called_handlers, ncalls>>
       /\ config[Last(scope)].exit_after_quit_handlers => pending' = pending

C21_SentinelNotIntercepted == [][SentinelNotIntercepted]_vars

\* the sentinel has left a guarded scope of a PubSub listing a quit handler
\* that was not called, and is still propagating
C21_Witness ==
    /\ phase = "running"
    /\ pending.type = "PubSubExit"
    /\ ep = NoEpisode
    /\ scope = <<>>
    /\ \E h \in Listed("A", "quit") : ncalls["A"][h] = 0

(***************************************************************************)
(* C22.  When a SystemExit that is not the sentinel unwinds a guarded      *)
(* scope, the guard calls its callback (_handle_quit of the PubSub of the  *)
(* scope) once, with the exception in flight, and then the exit propagates *)
(* if raise_again is true and is suppressed if it is false.  As stated     *)
(* (C22_GuardCallsThenPropagates) it fails when the callback raises: what  *)
(* it raises leaves __exit__ in place of the exit, whatever raise_again    *)
(* is.  Amended (C22_GuardCallsThenPropagatesUnlessRaise): the outcome     *)
(* follows raise_again when the callback returns, and is the callback's    *)
(* exception otherwise.                                                    *)
(***************************************************************************)
CallbackCalledOnce(e) ==
    /\ e.kind = "quit"
    /\ e.owner = Last(scope)
    /\ e.ctx = QuitContext(pending.code)
    /\ Cardinality({i \in 1..Len(e.loops) : e.loops[i].cat = "quit"}) = 1
    /\ e.loops[1] = [owner |-> Last(scope), cat |-> "quit"]

FollowsRaiseAgain ==
    pending' = IF config[Last(scope)].exit_after_quit_handlers THEN pending ELSE NoExc

GuardCallsThenPropagates ==
    (Unwinds /\ pending.type = "SystemExit")
    => CallbackCalledOnce(ep') /\ FollowsRaiseAgain

C22_GuardCallsThenPropagates == [][GuardCallsThenPropagates]_vars

GuardCallsThenPropagatesUnlessRaise ==
    (Unwinds /\ pending.type = "SystemExit")
    => /\ CallbackCalledOnce(ep')
       /\ IF Raised(ep'.exc) THEN pending' = ep'.exc ELSE FollowsRaiseAgain

C22_GuardCallsThenPropagatesUnlessRaise == [][GuardCallsThenPropagatesUnlessRaise]_vars

\* a scope with raise_again false was left by sys.exit(): its callback invoked
\* a quit handler, returned, and the exit was suppressed
C22_Witness ==
    /\ ep.kind = "quit"
    /\ ~config[ep.owner].exit_after_quit_handlers
    /\ \E i \in OwnLog : ep.log[i].cat = "quit"
    /\ ~Raised(ep.exc)
    /\ pending = NoExc
    /\ scope = <<>>

(***************************************************************************)
(* C23.  start() on a started PubSub is a no-op: the error hook, the       *)
(* signal handlers, the two histories, the atexit callbacks and the called *)
(* set are as they were.  So is entering a guarded scope of a started      *)
(* PubSub.                                                                 *)
(***************************************************************************)
StartedStartIsNoOp ==
    \A p \in live :
        (started[p] /\ (Start(p) \/ EnterScope(p)))
        => UNCHANGED <<adapter, called_handlers, started, ncalls>>

C23_StartIdempotent == [][StartedStartIsNoOp]_vars

\* a started PubSub whose called set is not empty is inside its guarded scope:
\* a state that start() and the scope entry reach and leave as it was
C23_Witness ==
    /\ started["A"]
    /\ called_handlers["A"] # {}
    /\ scope = <<"A">>
    /\ Len(EXCEPTION_HANDLERS_HISTORY) = 1
    /\ ep = NoEpisode
    /\ Idle

(***************************************************************************)
(* C24.  stop() on a PubSub that is not started (never started, or         *)
(* stopped) is a no-op: nothing is raised, no history is popped, and the   *)
(* error hook, the signal handlers and the atexit callbacks are as they    *)
(* were, also when the other PubSub is started.                            *)
(***************************************************************************)
StoppedStopIsNoOp ==
    \A p \in live :
        (~started[p] /\ Stop(p))
        => UNCHANGED <<adapter, started, called_handlers, pending>>

C24_StopIdempotent == [][StoppedStopIsNoOp]_vars

\* A was started and stopped again while B is started: B's wrappers are
\* installed, and a further A.stop() must leave them
C24_Witness ==
    /\ ~started["A"]
    /\ started["B"]
    /\ lc.op = "start_stop"
    /\ lc.who = "A"
    /\ excepthook.type = "wrapper"

(***************************************************************************)
(* C25.  start() and stop() leave the six handler collections as they are, *)
(* in content and in order, whatever start/stop cycles came before; and    *)
(* start() on a PubSub that is not started empties its called set.         *)
(***************************************************************************)
CyclesKeepHandlers ==
    \A p \in live :
        /\ (Start(p) \/ Stop(p)) => UNCHANGED handlers
        /\ (~started[p] /\ Start(p)) => called_handlers'[p] = {}

C25_CyclesKeepHandlers == [][CyclesKeepHandlers]_vars

\* start() has just started a PubSub that lists as many handlers as the bound
\* allows; its called set is empty
C25_Witness ==
    /\ lc.op = "start"
    /\ lc.who = "A"
    /\ started["A"]
    /\ Cardinality(Registered("A")) = MaxRegs
    /\ called_handlers["A"] = {}

(***************************************************************************)
(* C26.  Two PubSub objects started one after the other and stopped in     *)
(* the reverse order: after the stop() of the second, the error hook and   *)
(* the handler of every terminate signal are the wrappers the first        *)
(* installed, over the one entry it pushed on each history; after the      *)
(* stop() of the first they are the hooks of before its start(), every     *)
(* history stack is empty again and so are the atexit registrations.       *)
(***************************************************************************)
TerminateSignals == SeqToSet(signals_from_names(platform, PROCESS_TERMINATING_SIGNAL))

\* the hooks as start() of the PubSub first leaves them in a fresh process
FirstWrapper(first) ==
    Wrapper(first, Builtin, config[first].call_previous_exception_handlers)

OnlyFirst(first) ==
    /\ started = [p \in PubSubs |-> p = first]
    /\ excepthook = FirstWrapper(first)
    /\ EXCEPTION_HANDLERS_HISTORY = <<Builtin>>
    /\ \A sig \in AllSignals :
          IF sig \in TerminateSignals
          THEN /\ signal_handler[sig] = SignalWrapper(first)
               /\ HistoryOf(SIGNAL_HANDLERS_HISTORY, sig) = <<Builtin>>
          ELSE /\ signal_handler[sig] = Builtin
               /\ HistoryOf(SIGNAL_HANDLERS_HISTORY, sig) = <<>>
    /\ atexit_callbacks = <<"other", first>>

\* ... and as start() of the PubSub second leaves them after that
FirstThenSecond(first, second) ==
    /\ started = [p \in PubSubs |-> p \in {first, second}]
    /\ excepthook = Wrapper(second, FirstWrapper(first),
                            config[second].call_previous_exception_handlers)
    /\ EXCEPTION_HANDLERS_HISTORY = <<Builtin, FirstWrapper(first)>>
    /\ \A sig \in AllSignals :
          IF sig \in TerminateSignals
          THEN /\ signal_handler[sig] = SignalWrapper(second)
               /\ HistoryOf(SIGNAL_HANDLERS_HISTORY, sig) = <<Builtin, SignalWrapper(first)>>
          ELSE /\ signal_handler[sig] = Builtin
               /\ HistoryOf(SIGNAL_HANDLERS_HISTORY, sig) = <<>>
    /\ atexit_callbacks = <<"other", first, second>>

OriginalHooks ==
    /\ started = [p \in PubSubs |-> FALSE]
    /\ excepthook = InitialAdapter.excepthook
    /\ EXCEPTION_HANDLERS_HISTORY = <<>>
    /\ \A sig \in AllSignals :
          /\ signal_handler[sig] = InitialAdapter.signal_handler[sig]
          /\ HistoryOf(SIGNAL_HANDLERS_HISTORY, sig) = <<>>
    /\ atexit_callbacks = InitialAdapter.atexit

ReverseStops ==
    \A first, second \in live :
        first # second =>
            /\ (FirstThenSecond(first, second) /\ Stop(second))
                    => OnlyFirst(first)' /\ pending' = NoExc
            /\ (OnlyFirst(first) /\ Stop(first))
                    => OriginalHooks' /\ pending' = NoExc

C26_ReverseOrderUnwinds == [][ReverseStops]_vars

\* B was started while A was, and has just been stopped: A's wrappers are the
\* hooks again
C26_Witness ==
    /\ lc.op = "start_stop"
    /\ lc.who = "B"
    /\ lc.before.excepthook.type = "wrapper"
    /\ lc.before.excepthook.owner = "A"
    /\ OnlyFirst("A")

(***************************************************************************)
(* C27.  register_exception_handler and restore_previous_exception_handler *)
(* keep a stack: a register pushes the hook it replaces, each restore      *)
(* reinstalls the hook that was installed immediately before the matching  *)
(* register (the one the removed wrapper holds as its previous handler)    *)
(* and pops the history; when every register has been matched the history  *)
(* is empty and sys.excepthook is the original hook.                       *)
(***************************************************************************)
HookStack ==
    /\ EXCEPTION_HANDLERS_HISTORY = <<>> => excepthook = InitialAdapter.excepthook
    /\ EXCEPTION_HANDLERS_HISTORY # <<>> =>
          /\ excepthook.type = "wrapper"
          /\ excepthook.previous = <<Last(EXCEPTION_HANDLERS_HISTORY)>>
          /\ EXCEPTION_HANDLERS_HISTORY[1] = InitialAdapter.excepthook
          /\ \A i \in 2..Len(EXCEPTION_HANDLERS_HISTORY) :
                /\ EXCEPTION_HANDLERS_HISTORY[i].type = "wrapper"
                /\ EXCEPTION_HANDLERS_HISTORY[i].previous = <<EXCEPTION_HANDLERS_HISTORY[i - 1]>>

C27_ExcepthookLifo ==
    /\ HookStack
    /\ lc.op = "register_exception" =>
          /\ EXCEPTION_HANDLERS_HISTORY = Append(lc.before.exc_history, lc.before.excepthook)
          /\ excepthook.previous = <<lc.before.excepthook>>
          /\ excepthook.owner = lc.who
    /\ (lc.op = "restore_exception" /\ lc.before.exc_history # <<>>) =>
          /\ <<excepthook>> = lc.before.excepthook.previous
          /\ EXCEPTION_HANDLERS_HISTORY = Front(lc.before.exc_history)
          /\ pending = NoExc

\* the restore matching the first register, one of handler B, has just run:
\* the history is empty and the hook is the original one
C27_Witness ==
    /\ lc.op = "restore_exception"
    /\ lc.before.exc_history = <<Builtin>>
    /\ lc.before.excepthook.owner = "B"
    /\ excepthook = Builtin
    /\ EXCEPTION_HANDLERS_HISTORY = <<>>

(***************************************************************************)
(* C28.  restore_previous_exception_handler called when the history is     *)
(* empty raises IndexError and leaves sys.excepthook and the history as    *)
(* they were.                                                              *)
(***************************************************************************)
C28_RestoreUnderflow ==
    (lc.op = "restore_exception" /\ lc.before.exc_history = <<>>)
    => /\ pending = Error(0)
       /\ excepthook = lc.before.excepthook
       /\ EXCEPTION_HANDLERS_HISTORY = <<>>
       /\ AdapterState = lc.before

\* a restore with nothing to restore has just raised
C28_Witness ==
    /\ lc.op = "restore_exception"
    /\ lc.before.exc_history = <<>>
    /\ pending.type = "Error"

(***************************************************************************)
(* C29.  One history stack per signal, restored independently: a restore   *)
(* of signals that all have a recorded handler reinstalls, for each of     *)
(* them, the handler on top of its stack and pops that stack, and leaves   *)
(* the handler and the stack of every other signal as they were.  (A       *)
(* register, likewise, pushes and installs for its own signals only.)      *)
(***************************************************************************)
\* the signals a call was about: the names the platform has
CallSignals == SeqToSet(signals_from_names(platform, lc.signals))

OthersUntouched ==
    \A sig \in AllSignals \ CallSignals :
        /\ signal_handler[sig] = lc.before.signal_handler[sig]
        /\ HistoryOf(SIGNAL_HANDLERS_HISTORY, sig) = HistoryOf(lc.before.sig_history, sig)
        /\ sig \in DOMAIN SIGNAL_HANDLERS_HISTORY <=> sig \in DOMAIN lc.before.sig_history

C29_PerSignalRestore ==
    /\ (/\ lc.op = "restore_signals"
        /\ \A sig \in CallSignals : HistoryOf(lc.before.sig_history, sig) # <<>>)
       => /\ \A sig \in CallSignals :
                /\ signal_handler[sig] = Last(lc.before.sig_history[sig])
                /\ HistoryOf(SIGNAL_HANDLERS_HISTORY, sig) = Front(lc.before.sig_history[sig])
          /\ OthersUntouched
          /\ pending = NoExc
    /\ lc.op = "register_signals"
       => /\ \A sig \in CallSignals :
                /\ signal_handler[sig] = SignalWrapper(lc.who)
                /\ HistoryOf(SIGNAL_HANDLERS_HISTORY, sig) =
                      Append(HistoryOf(lc.before.sig_history, sig), lc.before.signal_handler[sig])
          /\ OthersUntouched

\* SIGINT and SIGTERM were registered, by different handlers, and SIGINT alone
\* has just been restored
C29_Witness ==
    /\ lc.op = "restore_signals"
    /\ lc.signals = <<"SIGINT">>
    /\ lc.before.signal_handler["SIGINT"] = SignalWrapper("A")
    /\ signal_handler["SIGINT"] = Builtin
    /\ signal_handler["SIGTERM"] = SignalWrapper("B")
    /\ HistoryOf(SIGNAL_HANDLERS_HISTORY, "SIGTERM") # <<>>
    /\ pending = NoExc

(***************************************************************************)
(* C30.  When every register_signals_handler has been matched by a restore *)
(* (every signal's stack is empty), SIGNAL_HANDLERS_HISTORY is the empty   *)
(* mapping, with no signal key left, and every signal's handler is the one *)
(* installed before the first registration.                                *)
(* Violated: restore_signals_handlers pops the list it got from the        *)
(* mapping and leaves the key, with an empty list.                         *)
(***************************************************************************)
AllRestored == \A sig \in AllSignals : HistoryOf(SIGNAL_HANDLERS_HISTORY, sig) = <<>>

OriginalSignalHandlers ==
    \A sig \in AllSignals : signal_handler[sig] = InitialAdapter.signal_handler[sig]

C30_HistoryEmptyAfterRestore ==
    AllRestored => /\ DOMAIN SIGNAL_HANDLERS_HISTORY = {}
                   /\ OriginalSignalHandlers

(***************************************************************************)
(* C31.  A wrapper installed by register_signals_handler(h, signals) and   *)
(* invoked for a signal, by delivery or as the previous handler called by  *)
(* a later registered handler, passes h the handler that was installed for *)
(* the signal immediately before the wrapper's own registration.  The      *)
(* k-th invoked wrapper was registered k - 1 registrations below the top   *)
(* of the signal's stack, whose entry at that level is the handler it      *)
(* replaced.                                                               *)
(***************************************************************************)
ReplacedBy(k) ==
    LET stack == HistoryOf(lc.before.sig_history, lc.signals[1])
    IN  stack[Len(stack) - k + 1]

C31_WrapperPassesReplacedHandler ==
    lc.op = "signal_call" =>
        \A k \in 1..Len(lc.received) : lc.received[k] = ReplacedBy(k)

(***************************************************************************)
(* C32.  signals_from_names yields, in input order, the signal of every    *)
(* name the platform has and every value given as a signal already, and    *)
(* skips the names the platform lacks.  A registration or a restoration    *)
(* over names some of which the platform lacks does not fail because of    *)
(* them (a restoration fails only for a signal the platform has whose      *)
(* stack is empty) and touches the signals the platform has only.          *)
(***************************************************************************)
OnPlatform(item) == item.is_signals \/ item.name \in DOMAIN SignalModule(platform)

AllStr(items) == \A i \in 1..Len(items) : ~items[i].is_signals

NamesOf(items) == [i \in 1..Len(items) |-> items[i].name]

TerminateHandlerRaised(h) ==
    /\ ep.kind = "terminate"
    /\ config[ep.owner] = DefaultConfig
    /\ \E i \in OwnLog : /\ ep.log[i].h = h
                         /\ ep.log[i].cat = "terminate"
                         /\ ep.log[i].did.op = "raise"
                         /\ \A j \in OwnLog : ep.log[j].h = h => i <= j

C33_InterruptedTerminateRetried ==
    \A h \in Handlers :
        TerminateHandlerRaised(h) =>
            /\ ep.exc.type = "PubSubExit"
            /\ EpCount(h) = 2
            /\ EpLoops("finish") = 1
            /\ EpLoops("always") = 1

(***************************************************************************)
(* C34.  In EventWatcher, a function registered with both on_finish and    *)
(* on_terminate is called only once, on the earliest event, over a whole   *)
(* run in which a terminating signal is delivered to the started watcher   *)
(* and the process then exits through the atexit run.                      *)
(***************************************************************************)
C34_SharedHandlerOncePerRun ==
    (phase = "dead" /\ seen.deliveries = 1) =>
        \A h \in Listed("A", "finish") \cap Listed("A", "terminate") :
            ncalls["A"][h] <= 1

(***************************************************************************)
(* C35.  restore_signals_handlers over several signals fails with          *)
(* IndexError as soon as one of the signals has no recorded previous       *)
(* handler, and then it is all or nothing: no handler and no history stack *)
(* has been changed.                                                       *)
(***************************************************************************)
SomeStackEmpty ==
    /\ lc.op = "restore_signals"
    /\ \E sig \in CallSignals : HistoryOf(lc.before.sig_history, sig) = <<>>

C35_RestoreAllOrNothing ==
    SomeStackEmpty =>
        /\ pending = Error(0)
        /\ signal_handler = lc.before.signal_handler
        /\ \A sig \in AllSignals :
              HistoryOf(SIGNAL_HANDLERS_HISTORY, sig) = HistoryOf(lc.before.sig_history, sig)

(***************************************************************************)
(* C36.  The guarded scope of a PubSub constructed with                    *)
(* exit_after_quit_handlers=False suppresses voluntary exits only: an      *)
(* exception that is no exit propagates out of the scope unchanged, and no *)
(* quit, hold or finish handler is dispatched for it.                      *)
(***************************************************************************)
ErrorLeavesScope ==
    (/\ Unwinds
     /\ pending.type = "Error"
     /\ ~config[Last(scope)].exit_after_quit_handlers)
    => /\ pending' = pending
       /\ ep' = NoEpisode
       /\ UNCHANGED <<called_handlers, ncalls>>

C36_ErrorsPropagateFromScope == [][ErrorLeavesScope]_vars

(***************************************************************************)
(* C37.  With exit_after_terminate_handlers=True, a terminating signal     *)
(* delivered inside a guarded scope always results in the forced exit      *)
(* propagating out of the scope after the finish handlers ran, for both    *)
(* values of exit_after_quit_handlers: the guard never turns it into       *)
(* continued execution.                                                    *)
(***************************************************************************)
\* a delivery inside a guarded scope ended with the forced exit
ForcedExitInScope ==
    /\ ep.kind = "terminate"
    /\ config[ep.owner].exit_after_terminate_handlers
    /\ ExitFromSignal(pending)
    /\ scope # <<>>

ForcedExitLeavesScope ==
    ForcedExitInScope =>
        /\ EpLoops("finish") = 1
        /\ Unwinds => pending' = pending

C37_ForcedExitLeavesScope == [][ForcedExitLeavesScope]_vars

(***************************************************************************)
(* C38.  In no episode are both the finish set and the hold set            *)
(* dispatched: for every terminate or quit dispatch, under every           *)
(* configuration and whichever handler exits or raises, at most one of     *)
(* _handle_finish and _handle_hold is entered; a crash dispatch never      *)
(* enters _handle_hold.  Each of the two begins with the loop of its own   *)
(* category.                                                               *)
(***************************************************************************)
C38_FinishOrHoldNotBoth ==
    IsEpisode =>
        /\ ~(EpLoops("finish") > 0 /\ EpLoops("hold") > 0)
        /\ ep.kind = "crash" => EpLoops("hold") = 0

\* a terminate dispatch entered _handle_hold, a hold handler called
\* event["exit"]() and the sentinel left the dispatch: _handle_finish was
\* not entered
C38_Witness ==
    /\ ep.kind = "terminate"
    /\ EpLoops("hold") = 1
    /\ EpLoops("finish") = 0
    /\ ep.exc.type = "PubSubExit"
    /\ \E i \in OwnLog : ep.log[i].cat = "hold" /\ ep.log[i].did.op = "exit"

(***************************************************************************)
(* C39.  In every state reachable by interleavings of start() and stop()   *)
(* on the PubSub objects of a process, the depth of                        *)
(* EXCEPTION_HANDLERS_HISTORY and the depth of the stack of each terminate *)
(* signal the platform has equal the number of started PubSub objects.     *)
(***************************************************************************)
NumStarted == Cardinality({p \in PubSubs : started[p]})

C39_DepthIsStartedCount ==
    /\ Len(EXCEPTION_HANDLERS_HISTORY) = NumStarted
    /\ \A sig \in TerminateSignals :
          Len(HistoryOf(SIGNAL_HANDLERS_HISTORY, sig)) = NumStarted

\* A and B were started in this order and A was stopped first: one PubSub is
\* started, each stack holds one entry, and the hook installed is A's
C39_Witness ==
    /\ ~started["A"]
    /\ started["B"]
    /\ excepthook.type = "wrapper"
    /\ excepthook.owner = "A"
    /\ Len(EXCEPTION_HANDLERS_HISTORY) = 1
    /\ \A sig \in TerminateSignals : Len(HistoryOf(SIGNAL_HANDLERS_HISTORY, sig)) = 1

(***************************************************************************)
(* C40.  After stop() on a started PubSub returns, none of that instance's *)
(* wrappers is the installed error hook or an installed signal handler,    *)
(* for every order of start() and stop() calls across two PubSub objects.  *)
(* Violated when a PubSub is stopped while one started after it still is:  *)
(* the restore reinstalls what the later start() recorded, the wrappers of *)
(* the PubSub being stopped.  It holds when the calls are nested: the      *)
(* PubSub stopped is the one started last among those still started.       *)
(***************************************************************************)
Installs(p) ==
    \/ excepthook.type = "wrapper" /\ excepthook.owner = p
    \/ \E sig \in AllSignals :
          signal_handler[sig].type = "wrapper" /\ signal_handler[sig].owner = p

StoppedLeavesNoWrapper ==
    \A p \in PubSubs :
        (started[p] /\ Stop(p) /\ ~Raised(pending')) => ~Installs(p)'

C40_StoppedLeavesNoWrapper == [][StoppedLeavesNoWrapper]_vars

\* the hooks from the oldest recorded to the installed one
HookChain == Append(EXCEPTION_HANDLERS_HISTORY, excepthook)

SignalChain(sig) == Append(HistoryOf(SIGNAL_HANDLERS_HISTORY, sig), signal_handler[sig])

OwnerAt(chain, i) == IF chain[i].type = "wrapper" THEN chain[i].owner ELSE "-"

\* the start() and stop() calls so far were nested: each started PubSub owns
\* one wrapper of the chain, and every signal's chain has the same owners
Nested ==
    /\ \A p \in PubSubs :
          Cardinality({i \in 1..Len(HookChain) : OwnerAt(HookChain, i) = p})
              = IF started[p] THEN 1 ELSE 0
    /\ \A sig \in TerminateSignals :
          /\ Len(SignalChain(sig)) = Len(HookChain)
          /\ \A i \in 1..Len(HookChain) :
                OwnerAt(SignalChain(sig), i) = OwnerAt(HookChain, i)

NestedStopLeavesNoWrapper ==
    \A p \in PubSubs :
        (Nested /\ started[p] /\ Installs(p) /\ Stop(p))
            => /\ ~Raised(pending')
               /\ ~Installs(p)'
               /\ Nested'

C40_NestedStopLeavesNoWrapper == [][NestedStopLeavesNoWrapper]_vars

\* B was started while A was and has just been stopped: the hooks are A's
C40_Witness ==
    /\ lc.op = "start_stop"
    /\ lc.who = "B"
    /\ started["A"]
    /\ ~started["B"]
    /\ Nested
    /\ Installs("A")
    /\ ~Installs("B")

====
